---- MODULE Spec2Model ----
(***************************************************************************)
(* Order placement and fulfilment of hincha-api: the order-creation        *)
(* handlers (POST /api/orders, in its three versions), the admin status    *)
(* handler (PATCH /api/orders/[id]) and the deposit/settle handler (PATCH  *)
(* /api/admin/orders/[id]), running as concurrent requests against a       *)
(* read-committed datastore with row locks (PostgreSQL behind Prisma).     *)
(*                                                                         *)
(* A request is a process: it reads committed rows, stages its writes in   *)
(* its interactive transaction (the tx fields of loc), and the writes reach  *)
(* the committed rows (orders, stock, ledger) in the one step that commits.*)
(* A row written inside a transaction stays locked until that transaction  *)
(* commits or rolls back; a step that needs a locked row waits.            *)
(***************************************************************************)
EXTENDS Integers, Sequences, FiniteSets, TLC

VARIABLES
    catalog,   \* Product and ProductVariant rows other than stock
    stock0,    \* ProductVariant.stock when the behaviour starts
    stock,     \* ProductVariant.stock, committed
    orders,    \* Order rows with their OrderItem rows, committed; id = index
    ledger,    \* Transaction rows, committed; id = index
    pc,        \* where each request is in its handler
    loc,       \* each request's inputs, locals and staged transaction writes
    last,      \* the response sent last
    nreq,      \* status requests begun so far
    ndep,      \* requests carrying a depositAmount answered 200 so far
    req,       \* the order request a pricing run serves
    products,  \* Product rows created by POST products, with their variants
    posts,     \* the social-media post of each created product
    instagramService  \* whether the posting service is configured

vars ==
    <<catalog, stock0, stock, orders, ledger, pc, loc, last, nreq, ndep, req, products, posts,
      instagramService>>

----------------------------------------------------------------------------
(* Bounds of the model *)

\* the fulfilment runs: orders created, status requests begun, initial stock
MaxOrders == 1
MaxReq == 2
MaxStock == 2

\* the race runs
RaceOrders == 2
RaceReq == 2

\* the pricing runs: items of a request
MaxItems == 2

\* the settlement runs: orders created, deposit/settle requests begun
SettleOrders == 1
SettleReq == 2

(* Program constants *)

CUSTOM_NAME_PRICE == 15000
CUSTOM_NUMBER_PRICE == 10000
PATCH_PRICE == 20000

NULL == "null"

Procs == {"r1", "r2"}

\* the server process of the runs that serve one request at a time
Server == "r1"
VIds == {"v1", "v2"}
PIds == {"p1", "p2"}
Names == {"M", "L"}
Statuses == {"pending", "paid", "canceled"}
Qtys == {1, 2}
Deposits == {20000}

\* the strings a request may send as variantId / productId
ReqVariantIds == VIds \cup Names \cup {"v9"}
ReqProductIds == PIds \cup {"p9"}

\* the rows' storage order, which findMany without orderBy returns them in
RowOrders == {<<"v1", "v2">>, <<"v2", "v1">>}

----------------------------------------------------------------------------
(* Catalog *)

\* a nullable integer column: <<>> is null, <<n>> is n
NoPrice == <<>>

\* Product: basePrice, title and imageUrl. ProductVariant: (productId, name)
\* is unique; price is the override or null
Catalogs ==
    { c \in [base : [PIds -> {10000}],
             title : [PIds -> {"Jersey"}], imageUrl : [PIds -> {"img1"}],
             var  : [VIds -> [productId : PIds, name : Names,
                              price : {NoPrice, <<12000>>}]]] :
        /\ \A v, w \in VIds :
              (v # w /\ c.var[v].productId = c.var[w].productId)
                  => c.var[v].name # c.var[w].name
        /\ c.var["v1"].productId = "p1" }

\* the catalog of the fulfilment runs: two sizes of one product, the second
\* with a price override
CoreCatalog ==
    [base |-> [p \in PIds |-> 10000],
     title |-> [p \in PIds |-> "Jersey"],
     imageUrl |-> [p \in PIds |-> "img1"],
     var  |-> [v \in VIds |->
                 IF v = "v1"
                 THEN [productId |-> "p1", name |-> "M", price |-> NoPrice]
                 ELSE [productId |-> "p1", name |-> "L", price |-> <<12000>>]]]

\* v.price ?? v.product.basePrice
UnitPrice(c, v) ==
    IF c.var[v].price # NoPrice THEN c.var[v].price[1]
    ELSE c.base[c.var[v].productId]

----------------------------------------------------------------------------
(* Requests and responses *)

\* a requested item {productId, variantId, qty}; qty is 1..99 by the schema
Item(p, v, q) == [productId |-> p, variantId |-> v, qty |-> q]

\* a request body of POST orders: items, the customization flags (whether
\* customName / customNumber are present and truthy, as `if (customName)`
\* reads them, and hasPatch) and the caller's user id (NULL without a valid
\* token)
Body(items, cn, cnum, patch, user) ==
    [items |-> items, customName |-> cn, customNumber |-> cnum,
     hasPatch |-> patch, user |-> user]

NoBody == Body(<<>>, FALSE, FALSE, FALSE, NULL)

\* the schema as it would be without the bounds of qty
ValidBodyUnbounded(body) ==
    Len(body.items) >= 1

\* schema.parse of POST orders accepts the body: at least one item, each
\* qty in 1..99
ValidBody(body) ==
    /\ Len(body.items) >= 1
    /\ \A i \in 1..Len(body.items) : body.items[i].qty \in 1..99

\* what a read returns: the caller it answers, the ids of the orders in it
\* and the total it reports
Read(caller, ids, total) == [caller |-> caller, ids |-> ids, total |-> total]

NoRead == Read(NULL, {}, 0)

\* a response: the handler, the HTTP status, the error (or message) of the
\* body; overlapped tells that the request began its transaction while
\* another request's transaction was open
Resp(op, code, error, overlapped) ==
    [op |-> op, code |-> code, error |-> error, overlapped |-> overlapped,
     body |-> NoRead]

NoResp == Resp(NULL, 0, NULL, FALSE)

\* an order's columns the deposit/settle handler reads before its transaction
NoSnap ==
    [status |-> NULL, totalPrice |-> 0, depositAmount |-> 0,
     depositTransactionId |-> 0, balanceTransactionId |-> 0, userId |-> NULL]

----------------------------------------------------------------------------
(* Pricing: the three versions of POST orders *)

\* the extras as they would be if each were charged per line item
ExtrasPerItem(body) ==
    Len(body.items)
    * ( (IF body.customName THEN CUSTOM_NAME_PRICE ELSE 0)
        + (IF body.customNumber THEN CUSTOM_NUMBER_PRICE ELSE 0)
        + (IF body.hasPatch THEN PATCH_PRICE ELSE 0) )

\* extras: CUSTOM_NAME_PRICE, CUSTOM_NUMBER_PRICE, PATCH_PRICE, once per order
Extras(body) ==
    (IF body.customName THEN CUSTOM_NAME_PRICE ELSE 0)
    + (IF body.customNumber THEN CUSTOM_NUMBER_PRICE ELSE 0)
    + (IF body.hasPatch THEN PATCH_PRICE ELSE 0)

\* `${title} (${name})`
Title(title, name) == <<title, name>>

\* an OrderItem row
OrderItem(productId, variantId, title, price, quantity, imageUrl) ==
    [productId |-> productId, variantId |-> variantId, title |-> title,
     price |-> price, quantity |-> quantity, imageUrl |-> imageUrl]

\* the Order row tx.order.create writes, with its items; the nullable
\* depositAmount and transaction ids are 0 when null (amounts are positive,
\* ids start at 1)
NewOrder(body, subtotal, totalPrice, items) ==
    [status |-> "pending", userId |-> body.user, subtotal |-> subtotal,
     totalPrice |-> totalPrice,
     customName |-> body.customName, customNumber |-> body.customNumber,
     hasPatch |-> body.hasPatch, items |-> items,
     depositAmount |-> 0, depositPaidAt |-> NULL,
     depositTransactionId |-> 0,
     balancePaidAt |-> NULL, balanceTransactionId |-> 0]

\* what a handler has decided after its reads: a response code and error, and
\* a value: the subtotal of a loop, the order to create of a handler
Decision(code, error, val) == [code |-> code, error |-> error, val |-> val]

\* variants.find((v) => v.name === key): the first row with that name
FindByName(c, rows, key) ==
    LET hits == SelectSeq(rows, LAMBDA v : c.var[v].name = key)
    IN  IF hits = <<>> THEN NULL ELSE Head(hits)

\* the stock check and subtotal loop of the by-name version; an item whose
\* name no row carries makes v undefined, and v.stock throws (caught: 400)
RECURSIVE LoopA(_, _, _, _, _, _)
LoopA(c, stk, rows, items, i, subtotal) ==
    IF i > Len(items) THEN Decision(201, NULL, subtotal)
    ELSE LET v == FindByName(c, rows, items[i].variantId)
         IN  IF v = NULL THEN Decision(400, "BAD_REQUEST", 0)
             ELSE IF stk[v] < items[i].qty
                  THEN Decision(409, "OUT_OF_STOCK", 0)
                  ELSE LoopA(c, stk, rows, items, i + 1,
                             subtotal + UnitPrice(c, v) * items[i].qty)

\* POST orders, by-name version: schema.parse, findMany({name: {in: variantIds}}), the
\* length check, the loop, the extras and the order to create
PostA_Decide(c, stk, order, body) ==
    LET items    == body.items
        rows     == SelectSeq(order, LAMBDA v :
                        \E i \in 1..Len(items) :
                            c.var[v].name = items[i].variantId)
        loop     == LoopA(c, stk, rows, items, 1, 0)
        subtotal == loop.val
        mk(i)    == LET v == FindByName(c, rows, items[i].variantId)
                        pid == c.var[v].productId
                    IN  OrderItem(pid, v, Title(c.title[pid], c.var[v].name),
                                  UnitPrice(c, v), items[i].qty,
                                  c.imageUrl[pid])
    IN  IF ~ValidBody(body) THEN Decision(400, "VALIDATION", NULL)
        ELSE IF Len(rows) # Len(items)
        THEN Decision(400, "PRODUCT_MISMATCH", NULL)
        ELSE IF loop.code # 201 THEN Decision(loop.code, loop.error, NULL)
        ELSE Decision(201, NULL,
                 NewOrder(body, subtotal, subtotal + Extras(body),
                          [i \in 1..Len(items) |-> mk(i)]))

\* the subtotal loop of the by-product version: basePrice * qty, and
\* PRODUCT_NOT_FOUND for a productId no Product row has
RECURSIVE LoopB(_, _, _, _)
LoopB(c, items, i, subtotal) ==
    IF i > Len(items) THEN Decision(201, NULL, subtotal)
    ELSE IF items[i].productId \notin PIds
         THEN Decision(400, "PRODUCT_NOT_FOUND", 0)
         ELSE LoopB(c, items, i + 1,
                    subtotal + c.base[items[i].productId] * items[i].qty)

\* POST orders, by-product version: schema.parse; no variant is read, the requested
\* variantId is stored as sent
PostB_Decide(c, body) ==
    LET items    == body.items
        loop     == LoopB(c, items, 1, 0)
        subtotal == loop.val
        mk(i)    == LET pid == items[i].productId
                    IN  OrderItem(pid, items[i].variantId,
                                  Title(c.title[pid], items[i].variantId),
                                  c.base[pid], items[i].qty, c.imageUrl[pid])
    IN  IF ~ValidBody(body) THEN Decision(400, "VALIDATION", NULL)
        ELSE IF loop.code # 201 THEN Decision(loop.code, loop.error, NULL)
        ELSE Decision(201, NULL,
                 NewOrder(body, subtotal, subtotal + Extras(body),
                          [i \in 1..Len(items) |-> mk(i)]))

\* the stock check and subtotal loop of the by-id version; after the length
\* check every item's id has its row
RECURSIVE LoopC(_, _, _, _, _)
LoopC(c, stk, items, i, subtotal) ==
    IF i > Len(items) THEN Decision(201, NULL, subtotal)
    ELSE LET v == items[i].variantId
         IN  IF stk[v] < items[i].qty
             THEN Decision(409, "OUT_OF_STOCK", 0)
             ELSE LoopC(c, stk, items, i + 1,
                        subtotal + UnitPrice(c, v) * items[i].qty)

\* POST orders, by-id version: requireAuth, schema.parse, findMany({id: {in: variantIds}}),
\* the length check and the loop; the items carry no variantId and the order
\* no extras (totalPrice is not written)
PostC_Decide(c, stk, body) ==
    LET items    == body.items
        found    == {v \in VIds : \E i \in 1..Len(items) : items[i].variantId = v}
        loop     == LoopC(c, stk, items, 1, 0)
        subtotal == loop.val
        mk(i)    == LET v == items[i].variantId
                        pid == c.var[v].productId
                    IN  OrderItem(pid, NULL, Title(c.title[pid], c.var[v].name),
                                  UnitPrice(c, v), items[i].qty,
                                  c.imageUrl[pid])
    IN  IF body.user = NULL \/ ~ValidBody(body)
        THEN Decision(400, "BAD_REQUEST", NULL)
        ELSE IF Cardinality(found) # Len(items)
        THEN Decision(400, "PRODUCT_MISMATCH", NULL)
        ELSE IF loop.code # 201 THEN Decision(loop.code, loop.error, NULL)
        ELSE Decision(201, NULL,
                 NewOrder([body EXCEPT !.customName = FALSE,
                                       !.customNumber = FALSE,
                                       !.hasPatch = FALSE],
                          subtotal, 0,
                          [i \in 1..Len(items) |-> mk(i)]))

----------------------------------------------------------------------------
(* Requests in flight *)

NoOrder == NewOrder(NoBody, 0, 0, <<>>)

\* a request's locals. caller: the role requireRole resolved; new: the order
\* POST is about to create; snap: the order as the deposit/settle handler
\* read it; created: the id of the Transaction row the request has created
\* outside a transaction; images: whether its images are well formed;
\* variantId, data: the variant a variant update names and the fields it
\* carries (<<>> is an absent field); txnId, edit: the Transaction row a
\* ledger edit names and the fields it carries; read, first: what a list
\* request has read so far and which of its two queries ran first;
\* txOrder, txStatus, txDec: the writes its open transaction has staged,
\* whose rows it holds locked
NoLoc ==
    [op |-> NULL, caller |-> NULL, oid |-> 0, status |-> NULL, deposit |-> 0,
     created |-> 0, images |-> TRUE,
     variantId |-> NULL, data |-> [stock |-> <<>>, price |-> <<>>],
     txnId |-> 0, edit |-> [type |-> <<>>, amount |-> <<>>],
     read |-> NoRead, first |-> NULL,
     new |-> NoOrder, snap |-> NoSnap, idx |-> 0,
     txOrder |-> 0, txStatus |-> NULL, txDec |-> [v \in VIds |-> 0],
     overlapped |-> FALSE]

\* the request holds an open interactive transaction
InTx(q) == pc[q] \in {"create", "items", "settle"}

\* another request's open transaction has written (and locked) the Order row
OrderLocked(p, oid) ==
    \E q \in Procs \ {p} : InTx(q) /\ loc[q].txOrder = oid

\* another request's open transaction has written the ProductVariant row
VariantLocked(p, v) ==
    \E q \in Procs \ {p} : InTx(q) /\ loc[q].txDec[v] > 0

\* the response is sent and the request is over; an open transaction's staged
\* writes are dropped with the locals
End(p, r) ==
    /\ pc' = [pc EXCEPT ![p] = "idle"]
    /\ loc' = [loc EXCEPT ![p] = NoLoc]
    /\ last' = r

\* the request goes on at `at` with locals l
Goto(p, at, l) ==
    /\ pc' = [pc EXCEPT ![p] = at]
    /\ loc' = [loc EXCEPT ![p] = l]
    /\ UNCHANGED last

\* fewer than n orders exist or are being created
CanCreate(n) ==
    Len(orders) + Cardinality({q \in Procs : pc[q] = "create"}) < n

----------------------------------------------------------------------------
(* POST orders *)

\* after the reads: the error response, or on to the creating transaction
Decided(p, op, d) ==
    IF d.code = 201
    THEN Goto(p, "create", [NoLoc EXCEPT !.op = op, !.new = d.val])
    ELSE End(p, Resp(op, d.code, d.error, FALSE))

\* by-name version, up to the decision
PostA_Read(p, body) ==
    /\ pc[p] = "idle"
    /\ \E rowOrder \in RowOrders :
          Decided(p, "postA", PostA_Decide(catalog, stock, rowOrder, body))
    /\ UNCHANGED <<catalog, stock0, stock, orders, ledger, nreq, ndep, req, products, posts,
      instagramService>>

\* by-product version, up to the decision
PostB_Read(p, body) ==
    /\ pc[p] = "idle"
    /\ Decided(p, "postB", PostB_Decide(catalog, body))
    /\ UNCHANGED <<catalog, stock0, stock, orders, ledger, nreq, ndep, req, products, posts,
      instagramService>>

\* by-id version, up to the decision
PostC_Read(p, body) ==
    /\ pc[p] = "idle"
    /\ Decided(p, "postC", PostC_Decide(catalog, stock, body))
    /\ UNCHANGED <<catalog, stock0, stock, orders, ledger, nreq, ndep, req, products, posts,
      instagramService>>

\* the units of variant v an order's items ask for
RECURSIVE Asked(_, _, _)
Asked(items, i, v) ==
    IF i > Len(items) THEN 0
    ELSE (IF items[i].variantId = v THEN items[i].quantity ELSE 0)
         + Asked(items, i + 1, v)

\* the creation as it would be if it reserved the stock it has checked
PostCreateReserving(p) ==
    /\ pc[p] = "create"
    /\ orders' = Append(orders, loc[p].new)
    /\ stock' = [v \in VIds |-> stock[v] - Asked(loc[p].new.items, 1, v)]
    /\ End(p, Resp(loc[p].op, 201, NULL, FALSE))
    /\ UNCHANGED <<catalog, stock0, ledger, nreq, ndep, req, products, posts,
      instagramService>>

\* prisma.$transaction(tx.order.create) and the 201 response; the stock is
\* left for the paid mark
PostCreate(p) ==
    /\ pc[p] = "create"
    /\ orders' = Append(orders, loc[p].new)
    /\ End(p, Resp(loc[p].op, 201, NULL, FALSE))
    /\ UNCHANGED <<catalog, stock0, stock, ledger, nreq, ndep, req, products, posts,
      instagramService>>

----------------------------------------------------------------------------
(* PATCH orders/[id]: the admin status handler *)

\* the decrement as prisma.productVariant.update would make it: outside the
\* transaction, committed at once
DecrementStockUnstaged(p, v, q) ==
    /\ Goto(p, "items", [loc[p] EXCEPT !.idx = @ + 1])
    /\ stock' = [stock EXCEPT ![v] = @ - q]

\* tx.productVariant.update({data: {stock: {decrement: q}}}): the decrement
\* is staged in the open transaction and the row stays locked
DecrementStock(p, v, q) ==
    /\ Goto(p, "items", [loc[p] EXCEPT !.txDec[v] = @ + q, !.idx = @ + 1])
    /\ UNCHANGED stock

\* requireRole, schema.parse and tx.order.update({data: {status}}), which
\* waits for the Order row and throws when there is none
PatchA_Update(p, caller, oid, status) ==
    /\ pc[p] = "idle"
    /\ nreq' = nreq + 1
    /\ IF caller # "admin"
       THEN End(p, Resp("patchA", 400, "FORBIDDEN", FALSE))
       ELSE IF status \notin Statuses
       THEN End(p, Resp("patchA", 400, "VALIDATION", FALSE))
       ELSE IF oid > Len(orders)
       THEN End(p, Resp("patchA", 400, "ORDER_NOT_FOUND", FALSE))
       ELSE /\ ~OrderLocked(p, oid)
            /\ Goto(p, "items",
                    [NoLoc EXCEPT !.op = "patchA", !.caller = caller,
                                  !.oid = oid,
                                  !.status = status, !.idx = 1,
                                  !.txOrder = oid, !.txStatus = status,
                                  !.overlapped = \E q \in Procs \ {p} :
                                                    InTx(q) /\ loc[q].op = "patchA"])
    /\ UNCHANGED <<catalog, stock0, stock, orders, ledger, ndep, req, products, posts,
      instagramService>>

\* one turn of the loop over order.items when status is "paid": an item
\* without variantId is skipped; the update of a variant waits for its row
\* and throws when there is none
PatchA_Item(p) ==
    /\ pc[p] = "items"
    /\ loc[p].status = "paid"
    /\ loc[p].idx <= Len(orders[loc[p].oid].items)
    /\ LET it == orders[loc[p].oid].items[loc[p].idx]
       IN  IF it.variantId = NULL
           THEN /\ Goto(p, "items", [loc[p] EXCEPT !.idx = @ + 1])
                /\ UNCHANGED stock
           ELSE IF it.variantId \notin VIds
           THEN /\ End(p, Resp("patchA", 400, "VARIANT_NOT_FOUND",
                               loc[p].overlapped))
                /\ UNCHANGED stock
           ELSE /\ ~VariantLocked(p, it.variantId)
                /\ DecrementStock(p, it.variantId, it.quantity)
    /\ UNCHANGED <<catalog, stock0, orders, ledger, nreq, ndep, req, products, posts,
      instagramService>>

\* the commit as it would be if a cancellation gave the items' units back
PatchA_CommitRestocking(p) ==
    /\ pc[p] = "items"
    /\ loc[p].status # "paid" \/ loc[p].idx > Len(orders[loc[p].oid].items)
    /\ orders' = [orders EXCEPT ![loc[p].txOrder].status = loc[p].txStatus]
    /\ stock' = [v \in VIds |->
                    IF loc[p].status = "canceled"
                    THEN stock[v] + Asked(orders[loc[p].oid].items, 1, v)
                    ELSE stock[v] - loc[p].txDec[v]]
    /\ End(p, Resp("patchA", 200, NULL, loc[p].overlapped))
    /\ UNCHANGED <<catalog, stock0, ledger, nreq, ndep, req, products, posts,
      instagramService>>

\* the transaction commits: the staged status and decrements reach the rows,
\* and the updated order is the 200 response
PatchA_Commit(p) ==
    /\ pc[p] = "items"
    /\ loc[p].status # "paid" \/ loc[p].idx > Len(orders[loc[p].oid].items)
    /\ orders' = [orders EXCEPT ![loc[p].txOrder].status = loc[p].txStatus]
    /\ stock' = [v \in VIds |-> stock[v] - loc[p].txDec[v]]
    /\ End(p, Resp("patchA", 200, NULL, loc[p].overlapped))
    /\ UNCHANGED <<catalog, stock0, ledger, nreq, ndep, req, products, posts,
      instagramService>>

----------------------------------------------------------------------------
(* PATCH admin orders/[id]: the deposit/settle handler *)

\* the row as it would be if it were booked as an expense
EntryAsExpense(userId, amount, kind, oid) ==
    [userId |-> userId, type |-> "EXPENSE", amount |-> amount,
     category |-> "venta", kind |-> kind, order |-> oid]

\* a Transaction row; kind is its description (deposit: "Sena del pedido",
\* balance: "Saldo del pedido") and order the order it names
Entry(userId, amount, kind, oid) ==
    [userId |-> userId, type |-> "INCOME", amount |-> amount,
     category |-> "venta", kind |-> kind, order |-> oid]

\* the columns findUnique selects
Snap(o) ==
    [status |-> o.status, totalPrice |-> o.totalPrice,
     depositAmount |-> o.depositAmount,
     depositTransactionId |-> o.depositTransactionId,
     balanceTransactionId |-> o.balanceTransactionId, userId |-> o.userId]

\* the transaction body as it would be if the deposit were recorded whether
\* or not the order already has one
SettleDepositAgain(l, led, row, admin) ==
    LET o       == l.snap
        owner   == IF o.userId # NULL THEN o.userId ELSE admin
        takeDep == l.deposit # 0
        led1    == IF takeDep
                   THEN Append(led, Entry(owner, l.deposit, "deposit", l.oid))
                   ELSE led
        row1    == IF takeDep
                   THEN [row EXCEPT !.depositAmount = l.deposit,
                                    !.depositPaidAt = "now",
                                    !.depositTransactionId = Len(led1)]
                   ELSE row
        toPaid  == l.status = "paid" /\ o.status # "paid"
        dep     == IF takeDep THEN l.deposit ELSE o.depositAmount
        balance == o.totalPrice - dep
        takeBal == toPaid /\ balance > 0 /\ o.balanceTransactionId = 0
        led2    == IF takeBal
                   THEN Append(led1, Entry(owner, balance, "balance", l.oid))
                   ELSE led1
        row2    == IF takeBal
                   THEN [row1 EXCEPT !.balancePaidAt = "now",
                                     !.balanceTransactionId = Len(led2)]
                   ELSE row1
        row3    == IF toPaid THEN [row2 EXCEPT !.status = "paid"]
                   ELSE IF l.status # NULL /\ l.status # o.status
                        THEN [row2 EXCEPT !.status = l.status]
                        ELSE row2
    IN  [ledger |-> led2, row |-> row3]

\* the transaction body as it would be if the balance were recorded only for
\* an order with a deposit
SettleBalanceAfterDeposit(l, led, row, admin) ==
    LET o       == l.snap
        owner   == IF o.userId # NULL THEN o.userId ELSE admin
        takeDep == l.deposit # 0 /\ o.depositTransactionId = 0
        led1    == IF takeDep
                   THEN Append(led, Entry(owner, l.deposit, "deposit", l.oid))
                   ELSE led
        row1    == IF takeDep
                   THEN [row EXCEPT !.depositAmount = l.deposit,
                                    !.depositPaidAt = "now",
                                    !.depositTransactionId = Len(led1)]
                   ELSE row
        toPaid  == l.status = "paid" /\ o.status # "paid"
        dep     == IF takeDep THEN l.deposit ELSE o.depositAmount
        balance == o.totalPrice - dep
        takeBal == /\ toPaid /\ balance > 0 /\ o.balanceTransactionId = 0
                   /\ (takeDep \/ o.depositTransactionId # 0)
        led2    == IF takeBal
                   THEN Append(led1, Entry(owner, balance, "balance", l.oid))
                   ELSE led1
        row2    == IF takeBal
                   THEN [row1 EXCEPT !.balancePaidAt = "now",
                                     !.balanceTransactionId = Len(led2)]
                   ELSE row1
        row3    == IF toPaid THEN [row2 EXCEPT !.status = "paid"]
                   ELSE IF l.status # NULL /\ l.status # o.status
                        THEN [row2 EXCEPT !.status = l.status]
                        ELSE row2
    IN  [ledger |-> led2, row |-> row3]

\* the transaction body: the ledger after its creates, and the row after
\* tx.order.update(updateData), from the request l (with the order as read,
\* l.snap), the committed ledger and the committed row
Settle(l, led, row, admin) ==
    LET o       == l.snap
        owner   == IF o.userId # NULL THEN o.userId ELSE admin
        takeDep == l.deposit # 0 /\ o.depositTransactionId = 0
        led1    == IF takeDep
                   THEN Append(led, Entry(owner, l.deposit, "deposit", l.oid))
                   ELSE led
        row1    == IF takeDep
                   THEN [row EXCEPT !.depositAmount = l.deposit,
                                    !.depositPaidAt = "now",
                                    !.depositTransactionId = Len(led1)]
                   ELSE row
        toPaid  == l.status = "paid" /\ o.status # "paid"
        dep     == IF takeDep THEN l.deposit ELSE o.depositAmount
        balance == o.totalPrice - dep
        takeBal == toPaid /\ balance > 0 /\ o.balanceTransactionId = 0
        led2    == IF takeBal
                   THEN Append(led1, Entry(owner, balance, "balance", l.oid))
                   ELSE led1
        row2    == IF takeBal
                   THEN [row1 EXCEPT !.balancePaidAt = "now",
                                     !.balanceTransactionId = Len(led2)]
                   ELSE row1
        row3    == IF toPaid THEN [row2 EXCEPT !.status = "paid"]
                   ELSE IF l.status # NULL /\ l.status # o.status
                        THEN [row2 EXCEPT !.status = l.status]
                        ELSE row2
    IN  [ledger |-> led2, row |-> row3]

\* requireRole, schema.parse and prisma.order.findUnique, outside the
\* transaction; status NULL and deposit 0 are the absent fields, and a
\* negative deposit is a depositAmount that is not positive
PatchD_Read(p, caller, oid, status, deposit) ==
    /\ pc[p] = "idle"
    /\ nreq' = nreq + 1
    /\ IF caller # "admin"
       THEN End(p, Resp("patchD", 400, "BAD_REQUEST", FALSE))
       ELSE IF status \notin Statuses \cup {NULL} \/ deposit < 0
       THEN End(p, Resp("patchD", 400, "BAD_REQUEST", FALSE))
       ELSE IF oid > Len(orders)
       THEN End(p, Resp("patchD", 404, "ORDER_NOT_FOUND", FALSE))
       ELSE Goto(p, "settle",
                 [NoLoc EXCEPT !.op = "patchD", !.caller = caller,
                               !.oid = oid,
                               !.status = status, !.deposit = deposit,
                               !.snap = Snap(orders[oid])])
    /\ UNCHANGED <<catalog, stock0, stock, orders, ledger, ndep, req, products, posts,
      instagramService>>

\* the transaction: the ledger rows are created, the Order row is updated
\* (waiting for it) and the transaction commits. The created rows lock
\* nothing and nobody sees them before the commit, so the three are one step
PatchD_Tx(p) ==
    /\ pc[p] = "settle"
    /\ ~OrderLocked(p, loc[p].oid)
    /\ LET w == Settle(loc[p], ledger, orders[loc[p].oid], "admin")
       IN  /\ ledger' = w.ledger
           /\ orders' = [orders EXCEPT ![loc[p].oid] = w.row]
    /\ ndep' = ndep + (IF loc[p].deposit # 0 THEN 1 ELSE 0)
    /\ End(p, Resp("patchD", 200, NULL, loc[p].overlapped))
    /\ UNCHANGED <<catalog, stock0, stock, nreq, req, products, posts,
      instagramService>>

\* a statement of an open transaction fails in the datastore (connection
\* lost, deadlock victim, transaction timeout): the transaction rolls back
\* and the handler's catch answers 400
TxFail(p) ==
    /\ InTx(p)
    /\ End(p, Resp(loc[p].op, 400, "TX_FAILED", loc[p].overlapped))
    /\ UNCHANGED <<catalog, stock0, stock, orders, ledger, nreq, ndep, req, products, posts,
      instagramService>>

----------------------------------------------------------------------------
(* The plain status handlers: PATCH admin orders/[id] in its version       *)
(* without a transaction, and PATCH seller orders/[id]                     *)

\* the statuses the seller handler's schema accepts
FulfilmentStatuses ==
    {"pending", "confirmed", "preparing", "ready", "delivered", "cancelled"}

\* val.toUpperCase() on the accepted statuses
ToUpperCase(val) ==
    CASE val = "pending"   -> "PENDING"
      [] val = "confirmed" -> "CONFIRMED"
      [] val = "preparing" -> "PREPARING"
      [] val = "ready"     -> "READY"
      [] val = "delivered" -> "DELIVERED"
      [] val = "cancelled" -> "CANCELLED"

\* Product.ownerId: the seller owns the first product, the admin the second
ProductOwner == [pid \in PIds |-> IF pid = "p1" THEN "seller" ELSE "admin"]

\* findFirst({id, items: {some: {product: {ownerId: user.id}}}})
FoundOwned(oid, userId) ==
    /\ oid \in 1..Len(orders)
    /\ \E i \in 1..Len(orders[oid].items) :
          /\ orders[oid].items[i].productId \in PIds
          /\ ProductOwner[orders[oid].items[i].productId] = userId

\* admin version: requireRole(["admin"]) and schema.parse
PatchE_Read(p, caller, oid, status) ==
    /\ pc[p] = "idle"
    /\ nreq' = nreq + 1
    /\ IF caller # "admin" \/ status \notin Statuses
       THEN End(p, Resp("patchE", 400, "BAD_REQUEST", FALSE))
       ELSE Goto(p, "plainE",
                 [NoLoc EXCEPT !.op = "patchE", !.caller = caller,
                               !.oid = oid, !.status = status])
    /\ UNCHANGED <<catalog, stock0, stock, orders, ledger, ndep, req, products, posts,
      instagramService>>

\* admin version: prisma.order.update({data: {status}}), which waits for the
\* Order row and throws when there is none
PatchE_Update(p) ==
    /\ pc[p] = "plainE"
    /\ IF loc[p].oid > Len(orders)
       THEN /\ End(p, Resp("patchE", 400, "BAD_REQUEST", FALSE))
            /\ UNCHANGED orders
       ELSE /\ ~OrderLocked(p, loc[p].oid)
            /\ orders' = [orders EXCEPT ![loc[p].oid].status = loc[p].status]
            /\ End(p, Resp("patchE", 200, NULL, FALSE))
    /\ UNCHANGED <<catalog, stock0, stock, ledger, nreq, ndep, req, products, posts,
      instagramService>>

\* seller version: requireRole(["seller", "admin"]), schema.parse with its
\* transform, and the ownership lookup
PatchF_Read(p, caller, oid, status) ==
    /\ pc[p] = "idle"
    /\ nreq' = nreq + 1
    /\ IF caller \notin {"seller", "admin"} \/ status \notin FulfilmentStatuses
       THEN End(p, Resp("patchF", 400, "BAD_REQUEST", FALSE))
       ELSE IF ~FoundOwned(oid, caller)
       THEN End(p, Resp("patchF", 403, "FORBIDDEN", FALSE))
       ELSE Goto(p, "plainF",
                 [NoLoc EXCEPT !.op = "patchF", !.caller = caller,
                               !.oid = oid, !.status = ToUpperCase(status)])
    /\ UNCHANGED <<catalog, stock0, stock, orders, ledger, ndep, req, products, posts,
      instagramService>>

\* seller version: prisma.order.update({data: {status}}), which waits for
\* the Order row
PatchF_Update(p) ==
    /\ pc[p] = "plainF"
    /\ ~OrderLocked(p, loc[p].oid)
    /\ orders' = [orders EXCEPT ![loc[p].oid].status = loc[p].status]
    /\ End(p, Resp("patchF", 200, NULL, FALSE))
    /\ UNCHANGED <<catalog, stock0, stock, ledger, nreq, ndep, req, products, posts,
      instagramService>>

----------------------------------------------------------------------------
(* POST transactions, JSON path: a ledger entry made by hand *)

\* the types CreateSchema accepts
TxTypes == {"INCOME", "EXPENSE"}

\* a Transaction row created by hand: no category, no order
ManualEntry(userId, type, amount) ==
    [userId |-> userId, type |-> type, amount |-> amount,
     category |-> NULL, kind |-> "manual", order |-> 0]

\* requireRole(["admin", "seller"]), CreateSchema.parse(body) and
\* prisma.transaction.create, which commits the row at once; images tells
\* whether body.images is well formed
TxnPost_Create(p, caller, type, amount, images) ==
    /\ pc[p] = "idle"
    /\ IF caller \notin {"admin", "seller"} \/ type \notin TxTypes \/ amount < 0
       THEN /\ End(p, Resp("txnPost", 400, "BAD_REQUEST", FALSE))
            /\ UNCHANGED ledger
       ELSE /\ ledger' = Append(ledger, ManualEntry(caller, type, amount))
            /\ Goto(p, "images",
                    [NoLoc EXCEPT !.op = "txnPost", !.caller = caller,
                                  !.created = Len(ledger) + 1,
                                  !.images = images])
    /\ UNCHANGED <<catalog, stock0, stock, orders, nreq, ndep, req, products, posts,
      instagramService>>

\* ImagesSchema.parse(body.images), which throws on malformed images, and
\* the 201 response; the TransactionImage rows are left out
TxnPost_Images(p) ==
    /\ pc[p] = "images"
    /\ IF loc[p].images
       THEN End(p, Resp("txnPost", 201, NULL, FALSE))
       ELSE End(p, Resp("txnPost", 400, "BAD_REQUEST", FALSE))
    /\ UNCHANGED <<catalog, stock0, stock, orders, ledger, nreq, ndep, req, products, posts,
      instagramService>>

----------------------------------------------------------------------------
(* PATCH and DELETE transactions/[id]: the edit of a ledger entry. A       *)
(* deleted row keeps its place, so that ids stay indexes                    *)

\* what is left of a deleted Transaction row
Deleted ==
    [userId |-> NULL, type |-> NULL, amount |-> 0,
     category |-> NULL, kind |-> "deleted", order |-> 0]

\* findUnique({where: {id}})
TxnExists(id) == id \in 1..Len(ledger) /\ ledger[id] # Deleted

\* an Order row names the Transaction row as its deposit or its balance
Referenced(id) ==
    \E o \in 1..Len(orders) :
        id \in {orders[o].depositTransactionId, orders[o].balanceTransactionId}

\* requireRole(["admin", "seller"]), the not-found answer and the rule that a
\* seller touches only its own rows, which PATCH and DELETE share
TxnGate(p, op, caller, id, l) ==
    IF caller \notin {"admin", "seller"}
    THEN End(p, Resp(op, 400, "BAD_REQUEST", FALSE))
    ELSE IF ~TxnExists(id)
    THEN End(p, Resp(op, 404, "NOT_FOUND", FALSE))
    ELSE IF caller = "seller" /\ ledger[id].userId # caller
    THEN End(p, Resp(op, 403, "FORBIDDEN", FALSE))
    ELSE Goto(p, op, l)

\* PATCH: requireRole, UpdateSchema.parse, findUnique and the owner rule
TxnPatch_Read(p, caller, id, type, amount) ==
    /\ pc[p] = "idle"
    /\ IF (type # <<>> /\ type[1] \notin TxTypes) \/ (amount # <<>> /\ amount[1] < 0)
       THEN End(p, Resp("txnPatch", 400, "BAD_REQUEST", FALSE))
       ELSE TxnGate(p, "txnPatch", caller, id,
                    [NoLoc EXCEPT !.op = "txnPatch", !.caller = caller,
                                  !.txnId = id,
                                  !.edit = [type |-> type, amount |-> amount]])
    /\ UNCHANGED <<catalog, stock0, stock, orders, ledger, nreq, ndep, req, products, posts,
      instagramService>>

\* PATCH: prisma.transaction.update with the fields the body carries; it
\* throws when the row is gone
TxnPatch_Update(p) ==
    /\ pc[p] = "txnPatch"
    /\ IF ~TxnExists(loc[p].txnId)
       THEN /\ End(p, Resp("txnPatch", 400, "BAD_REQUEST", FALSE))
            /\ UNCHANGED ledger
       ELSE /\ ledger' =
                 [ledger EXCEPT
                     ![loc[p].txnId].type =
                         IF loc[p].edit.type = <<>> THEN @ ELSE loc[p].edit.type[1],
                     ![loc[p].txnId].amount =
                         IF loc[p].edit.amount = <<>> THEN @ ELSE loc[p].edit.amount[1]]
            /\ End(p, Resp("txnPatch", 200, NULL, FALSE))
    /\ UNCHANGED <<catalog, stock0, stock, orders, nreq, ndep, req, products, posts,
      instagramService>>

\* DELETE: requireRole, findUnique and the owner rule
TxnDelete_Read(p, caller, id) ==
    /\ pc[p] = "idle"
    /\ TxnGate(p, "txnDelete", caller, id,
               [NoLoc EXCEPT !.op = "txnDelete", !.caller = caller, !.txnId = id])
    /\ UNCHANGED <<catalog, stock0, stock, orders, ledger, nreq, ndep, req, products, posts,
      instagramService>>

\* DELETE: prisma.transaction.delete; it throws when the row is gone. No
\* schema under src tells whether the datastore refuses to delete a row an
\* order names: both outcomes are allowed
TxnDelete_Delete(p) ==
    /\ pc[p] = "txnDelete"
    /\ \E refused \in {FALSE, Referenced(loc[p].txnId)} :
          IF ~TxnExists(loc[p].txnId) \/ refused
          THEN /\ End(p, Resp("txnDelete", 400, "BAD_REQUEST", FALSE))
               /\ UNCHANGED ledger
          ELSE /\ ledger' = [ledger EXCEPT ![loc[p].txnId] = Deleted]
               /\ End(p, Resp("txnDelete", 204, NULL, FALSE))
    /\ UNCHANGED <<catalog, stock0, stock, orders, nreq, ndep, req, products, posts,
      instagramService>>

----------------------------------------------------------------------------
(* The catalog handlers: PATCH seller variants/[variantId] and PUT         *)
(* products/[id]. An optional field is <<>> when absent and <<x>> when x   *)

\* requireRole(["seller", "admin"]), assertOwnership and updateSchema.parse;
\* stock is an integer >= 0, price an integer or null
VariantPatch_Read(p, caller, variantId, stk, price) ==
    /\ pc[p] = "idle"
    /\ IF caller \notin {"seller", "admin"}
       THEN End(p, Resp("variantPatch", 400, "FORBIDDEN", FALSE))
       ELSE IF \/ variantId \notin VIds
               \/ /\ caller # "admin"
                  /\ ProductOwner[catalog.var[variantId].productId] # caller
       THEN End(p, Resp("variantPatch", 403, "FORBIDDEN", FALSE))
       ELSE IF stk # <<>> /\ stk[1] < 0
       THEN End(p, Resp("variantPatch", 400, "VALIDATION", FALSE))
       ELSE Goto(p, "variant",
                 [NoLoc EXCEPT !.op = "variantPatch", !.caller = caller,
                               !.variantId = variantId,
                               !.data = [stock |-> stk, price |-> price]])
    /\ UNCHANGED <<catalog, stock0, stock, orders, ledger, nreq, ndep, req, products, posts,
      instagramService>>

\* the update as it would be if it brought the price snapshot of the
\* variant's order items up to date
VariantPatch_UpdateResync(p) ==
    /\ pc[p] = "variant"
    /\ ~VariantLocked(p, loc[p].variantId)
    /\ stock' = IF loc[p].data.stock = <<>> THEN stock
                ELSE [stock EXCEPT ![loc[p].variantId] = loc[p].data.stock[1]]
    /\ catalog' = IF loc[p].data.price = <<>> THEN catalog
                  ELSE [catalog EXCEPT !.var[loc[p].variantId].price =
                                           loc[p].data.price[1]]
    /\ orders' = [o \in 1..Len(orders) |->
                    [orders[o] EXCEPT !.items =
                        [i \in 1..Len(orders[o].items) |->
                            IF orders[o].items[i].variantId = loc[p].variantId
                            THEN [orders[o].items[i] EXCEPT
                                     !.price = UnitPrice(catalog', loc[p].variantId)]
                            ELSE orders[o].items[i]]]]
    /\ End(p, Resp("variantPatch", 200, NULL, FALSE))
    /\ UNCHANGED <<stock0, ledger, nreq, ndep, req, products, posts,
      instagramService>>

\* prisma.productVariant.update({where: {id}, data}), which waits for the
\* ProductVariant row and writes the fields the body carries
VariantPatch_Update(p) ==
    /\ pc[p] = "variant"
    /\ ~VariantLocked(p, loc[p].variantId)
    /\ stock' = IF loc[p].data.stock = <<>> THEN stock
                ELSE [stock EXCEPT ![loc[p].variantId] = loc[p].data.stock[1]]
    /\ catalog' = IF loc[p].data.price = <<>> THEN catalog
                  ELSE [catalog EXCEPT !.var[loc[p].variantId].price =
                                           loc[p].data.price[1]]
    /\ End(p, Resp("variantPatch", 200, NULL, FALSE))
    /\ UNCHANGED <<stock0, orders, ledger, nreq, ndep, req, products, posts,
      instagramService>>

\* the update as it would be if it emptied the stock of the product's
\* variants
ProductPutClearing(p, caller, pid, title, basePrice, imageUrl) ==
    /\ pc[p] = "idle"
    /\ IF caller = NULL
       THEN /\ End(p, Resp("productPut", 400, "BAD_REQUEST", FALSE))
            /\ UNCHANGED <<catalog, stock>>
       ELSE IF pid \notin PIds
       THEN /\ End(p, Resp("productPut", 404, "NOT_FOUND", FALSE))
            /\ UNCHANGED <<catalog, stock>>
       ELSE /\ catalog' =
                 [catalog EXCEPT
                     !.title[pid] = IF title = <<>> THEN @ ELSE title[1],
                     !.base[pid] = IF basePrice = <<>> THEN @ ELSE basePrice[1],
                     !.imageUrl[pid] = IF imageUrl = <<>> THEN @ ELSE imageUrl[1]]
            /\ stock' = [v \in VIds |->
                            IF catalog.var[v].productId = pid THEN 0
                            ELSE stock[v]]
            /\ End(p, Resp("productPut", 200, NULL, FALSE))
    /\ UNCHANGED <<stock0, orders, ledger, nreq, ndep, req, products, posts,
      instagramService>>

\* PUT products/[id]: requireAuth, findUnique, updateSchema.parse and
\* prisma.product.update with the fields the body carries
ProductPut(p, caller, pid, title, basePrice, imageUrl) ==
    /\ pc[p] = "idle"
    /\ IF caller = NULL
       THEN /\ End(p, Resp("productPut", 400, "BAD_REQUEST", FALSE))
            /\ UNCHANGED catalog
       ELSE IF pid \notin PIds
       THEN /\ End(p, Resp("productPut", 404, "NOT_FOUND", FALSE))
            /\ UNCHANGED catalog
       ELSE /\ catalog' =
                 [catalog EXCEPT
                     !.title[pid] = IF title = <<>> THEN @ ELSE title[1],
                     !.base[pid] = IF basePrice = <<>> THEN @ ELSE basePrice[1],
                     !.imageUrl[pid] = IF imageUrl = <<>> THEN @ ELSE imageUrl[1]]
            /\ End(p, Resp("productPut", 200, NULL, FALSE))
    /\ UNCHANGED <<stock0, stock, orders, ledger, nreq, ndep, req, products, posts,
      instagramService>>

----------------------------------------------------------------------------
(* POST products, and the social-media post it starts *)

\* the Product row prisma.product.create writes, with its ProductVariant rows
NewProduct(title, ownerId, variants) ==
    [title |-> title, ownerId |-> ownerId, variants |-> variants]

\* requireAuth, the schema (at least one variant) and prisma.product.create
\* with its nested createMany, one statement; the post has not begun
ProdPost_Create(p, caller, title, variants) ==
    /\ pc[p] = "idle"
    /\ IF caller = NULL \/ Len(variants) < 1
       THEN /\ End(p, Resp("prodPost", 400, "BAD_REQUEST", FALSE))
            /\ UNCHANGED <<products, posts>>
       ELSE /\ products' = Append(products, NewProduct(title, caller, variants))
            /\ posts' = Append(posts, "none")
            /\ Goto(p, "prodCreated",
                    [NoLoc EXCEPT !.op = "prodPost", !.caller = caller,
                                  !.created = Len(products) + 1])
    /\ UNCHANGED <<catalog, stock0, stock, orders, ledger, nreq, ndep, req,
                   instagramService>>

\* the response as it would be if the handler awaited the post and undid
\* the creation when the post fails
ProdPost_RespondAwaiting(p) ==
    /\ pc[p] = "prodCreated"
    /\ IF instagramService
       THEN \E posted \in BOOLEAN :
               IF posted
               THEN /\ posts' = [posts EXCEPT ![loc[p].created] = "published"]
                    /\ End(p, Resp("prodPost", 201, NULL, FALSE))
                    /\ UNCHANGED products
               ELSE /\ posts' = [posts EXCEPT ![loc[p].created] = "failed"]
                    /\ products' = [products EXCEPT ![loc[p].created].variants = <<>>]
                    /\ End(p, Resp("prodPost", 400, "BAD_REQUEST", FALSE))
       ELSE /\ End(p, Resp("prodPost", 201, NULL, FALSE))
            /\ UNCHANGED <<products, posts>>
    /\ UNCHANGED <<catalog, stock0, stock, orders, ledger, nreq, ndep, req,
                   instagramService>>

\* if (instagramService) publishAuto(...).then(...).catch(...), which is not
\* awaited, and the 201 response
ProdPost_Respond(p) ==
    /\ pc[p] = "prodCreated"
    /\ posts' = IF instagramService
                THEN [posts EXCEPT ![loc[p].created] = "pending"]
                ELSE posts
    /\ End(p, Resp("prodPost", 201, NULL, FALSE))
    /\ UNCHANGED <<catalog, stock0, stock, orders, ledger, nreq, ndep, req,
                   products, instagramService>>

\* the promise of publishAuto resolves: .then logs the post id
Publish_Then(i) ==
    /\ i \in 1..Len(posts)
    /\ posts[i] = "pending"
    /\ posts' = [posts EXCEPT ![i] = "published"]
    /\ UNCHANGED <<catalog, stock0, stock, orders, ledger, pc, loc, last,
                   nreq, ndep, req, products, instagramService>>

\* the promise of publishAuto rejects: .catch logs the error
Publish_Catch(i) ==
    /\ i \in 1..Len(posts)
    /\ posts[i] = "pending"
    /\ posts' = [posts EXCEPT ![i] = "failed"]
    /\ UNCHANGED <<catalog, stock0, stock, orders, ledger, pc, loc, last,
                   nreq, ndep, req, products, instagramService>>

----------------------------------------------------------------------------
(* GET orders/[id] and the two versions of GET orders. A list runs count   *)
(* and findMany side by side (Promise.all), so either may read first; the  *)
(* page holds every order                                                  *)

\* the orders a where clause {userId} selects; NULL is no where clause
Selected(userId) ==
    {o \in 1..Len(orders) : userId = NULL \/ orders[o].userId = userId}

\* GET orders/[id]: requireAuth, findUnique and the owner check
GetOrder(p, caller, oid) ==
    /\ pc[p] = "idle"
    /\ IF caller = NULL
       THEN End(p, Resp("getOrder", 401, "UNAUTHORIZED", FALSE))
       ELSE IF oid > Len(orders) \/ orders[oid].userId # caller
       THEN End(p, Resp("getOrder", 404, "NOT_FOUND", FALSE))
       ELSE End(p, [Resp("getOrder", 200, NULL, FALSE) EXCEPT
                       !.body = Read(caller, {oid}, 1)])
    /\ UNCHANGED <<catalog, stock0, stock, orders, ledger, nreq, ndep, req,
                   products, posts, instagramService>>

\* the first query of a list whose where clause is `where`
ListFirst(p, op, caller, where, first) ==
    /\ pc[p] = "idle"
    /\ IF caller = NULL
       THEN End(p, Resp(op, 401, "UNAUTHORIZED", FALSE))
       ELSE Goto(p, op,
                 [NoLoc EXCEPT
                     !.op = op, !.caller = caller, !.first = first,
                     !.read = IF first = "count"
                              THEN Read(caller, {}, Cardinality(Selected(where)))
                              ELSE Read(caller, Selected(where), 0)])
    /\ UNCHANGED <<catalog, stock0, stock, orders, ledger, nreq, ndep, req,
                   products, posts, instagramService>>

\* the other query of the list, and the 200 response
ListSecond(p, op, where) ==
    /\ pc[p] = op
    /\ End(p, [Resp(op, 200, NULL, FALSE) EXCEPT
                  !.body = IF loc[p].first = "count"
                           THEN [loc[p].read EXCEPT !.ids = Selected(where)]
                           ELSE [loc[p].read EXCEPT
                                    !.total = Cardinality(Selected(where))]])
    /\ UNCHANGED <<catalog, stock0, stock, orders, ledger, nreq, ndep, req,
                   products, posts, instagramService>>

\* GET orders, the version with optionalAuth: count() and findMany() carry
\* no where clause
ListA_First(p, caller, first) == ListFirst(p, "listA", caller, NULL, first)

ListA_Second(p) == ListSecond(p, "listA", NULL)

\* GET orders, the version with requireAuth: where {userId: sub}
ListC_First(p, caller, first) == ListFirst(p, "listC", caller, caller, first)

ListC_Second(p) == ListSecond(p, "listC", loc[p].caller)

----------------------------------------------------------------------------
(* The fulfilment runs: the status and the deposit/settle handlers, by    *)
(* admins, on orders of one unit of a size (ordered by name) and of a size *)
(* with a variant id nobody has (ordered by product)                       *)

ByName == Body(<<Item("p1", "M", 1)>>, FALSE, FALSE, FALSE, NULL)
ByProduct ==
    Body(<<Item("p1", "v1", 1), Item("p1", "v9", 1)>>, FALSE, FALSE, FALSE, NULL)

InitWith(stocks) ==
    /\ catalog = CoreCatalog
    /\ stock0 \in stocks
    /\ stock = stock0
    /\ orders = <<>>
    /\ ledger = <<>>
    /\ pc = [p \in Procs |-> "idle"]
    /\ loc = [p \in Procs |-> NoLoc]
    /\ last = NoResp
    /\ nreq = 0
    /\ ndep = 0
    /\ req = NoBody
    /\ products = <<>>
    /\ posts = <<>>
    /\ instagramService = FALSE

\* the second size is fully stocked
Init == InitWith({f \in [VIds -> 0..MaxStock] : f["v2"] = MaxStock})

Next ==
    \E p \in Procs :
        \/ CanCreate(MaxOrders) /\ PostA_Read(p, ByName)
        \/ CanCreate(MaxOrders) /\ PostB_Read(p, ByProduct)
        \/ PostCreate(p)
        \/ /\ nreq < MaxReq
           /\ \E oid \in 1..MaxOrders, status \in Statuses :
                  PatchA_Update(p, "admin", oid, status)
        \/ PatchA_Item(p)
        \/ PatchA_Commit(p)
        \/ /\ nreq < MaxReq
           /\ \E oid \in 1..MaxOrders, status \in Statuses \cup {NULL},
                 deposit \in Deposits \cup {0} :
                  PatchD_Read(p, "admin", oid, status, deposit)
        \/ PatchD_Tx(p)
        \/ TxFail(p)

Spec == Init /\ [][Next]_vars

----------------------------------------------------------------------------
(* The race runs: the status handler alone, by any caller, on up to        *)
(* RaceOrders orders of one or two sizes                                   *)

Callers == {"admin", "seller"}

RaceItemLists ==
    { <<Item("p1", "M", 1)>>,
      <<Item("p1", "v1", 1)>>,
      <<Item("p1", "v1", 1), Item("p1", "v2", 2)>> }

RaceBodies == {Body(items, FALSE, FALSE, FALSE, NULL) : items \in RaceItemLists}

InitRace == InitWith([VIds -> 0..MaxStock])

NextRace ==
    \E p \in Procs :
        \/ CanCreate(RaceOrders) /\ \E body \in RaceBodies : PostA_Read(p, body)
        \/ CanCreate(RaceOrders) /\ \E body \in RaceBodies : PostB_Read(p, body)
        \/ PostCreate(p)
        \/ /\ nreq < RaceReq
           /\ \E caller \in Callers, oid \in 1..RaceOrders, status \in Statuses :
                  PatchA_Update(p, caller, oid, status)
        \/ PatchA_Item(p)
        \/ PatchA_Commit(p)
        \/ TxFail(p)

SpecRace == InitRace /\ [][NextRace]_vars

----------------------------------------------------------------------------
(* The settlement runs: the deposit/settle handler alone, by any caller, on *)
(* orders of one unit whose total is below or above the deposit             *)

SettleBodies ==
    { Body(<<Item("p1", "M", 1)>>, FALSE, FALSE, patch, user) :
        patch \in BOOLEAN, user \in {NULL, "u1"} }

InitSettle == InitWith({[v \in VIds |-> MaxStock]})

NextSettle ==
    \E p \in Procs :
        \/ CanCreate(SettleOrders) /\ \E body \in SettleBodies : PostA_Read(p, body)
        \/ PostCreate(p)
        \/ /\ nreq < SettleReq
           /\ \E caller \in Callers, oid \in 1..SettleOrders,
                 status \in Statuses \cup {NULL}, deposit \in Deposits \cup {0, -1} :
                  PatchD_Read(p, caller, oid, status, deposit)
        \/ PatchD_Tx(p)
        \/ TxFail(p)

SpecSettle == InitSettle /\ [][NextSettle]_vars

----------------------------------------------------------------------------
(* The gate runs: every status handler, by any caller and with any body,   *)
(* on orders of one unit of a size placed by a guest or by a user          *)

GateOrders == 1
GateReq == 2
GateLedger == 1

\* the resolved roles, NULL without a valid credential
AllCallers == {"admin", "seller", "user", NULL}

\* a well-formed order by a guest and by a user, and one with a qty of 0
GateBodies ==
    {Body(<<Item("p1", "M", q)>>, FALSE, FALSE, FALSE, user) :
        q \in {0, 1}, user \in {NULL, "u1"}}

\* the statuses a body may carry: the three of the admin schemas and some
\* of the seller schema
AnyStatuses == Statuses \cup {"confirmed", "cancelled"}

InitGate == InitWith({[v \in VIds |-> MaxStock]})

NextGate ==
    \E p \in Procs :
        \/ CanCreate(GateOrders) /\ \E body \in GateBodies : PostA_Read(p, body)
        \/ PostCreate(p)
        \/ /\ nreq < GateReq
           /\ \E caller \in AllCallers, oid \in 1..GateOrders,
                 status \in AnyStatuses :
                  PatchA_Update(p, caller, oid, status)
        \/ /\ nreq < GateReq
           /\ \E caller \in AllCallers, oid \in 1..GateOrders,
                 status \in AnyStatuses \cup {NULL},
                 deposit \in {-1, 0} \cup Deposits :
                  PatchD_Read(p, caller, oid, status, deposit)
        \/ /\ nreq < GateReq
           /\ \E caller \in AllCallers, oid \in 1..GateOrders,
                 status \in AnyStatuses :
                  PatchE_Read(p, caller, oid, status)
        \/ /\ nreq < GateReq
           /\ \E caller \in AllCallers, oid \in 1..GateOrders,
                 status \in AnyStatuses :
                  PatchF_Read(p, caller, oid, status)
        \/ PatchA_Item(p)
        \/ PatchA_Commit(p)
        \/ PatchD_Tx(p)
        \/ PatchE_Update(p)
        \/ PatchF_Update(p)
        \/ /\ Len(ledger) < GateLedger
           /\ \E caller \in AllCallers, type \in TxTypes \cup {"OTHER"},
                 amount \in {-1, 5000}, images \in BOOLEAN :
                  TxnPost_Create(p, caller, type, amount, images)
        \/ TxnPost_Images(p)
        \/ TxFail(p)

SpecGate == InitGate /\ [][NextGate]_vars

----------------------------------------------------------------------------
(* The catalog runs: one request at a time; an order of one unit of a     *)
(* size, the status and the deposit/settle handlers by an admin, and the   *)
(* catalog handlers on the first size and its product                      *)

CatOrders == 1
CatReq == 2

\* the bodies of a variant update: a sell-out, a restock, a price override
\* and its removal
VariantEdits ==
    {[stock |-> stk, price |-> <<>>] : stk \in {<<0>>, <<MaxStock>>}}
        \cup {[stock |-> <<>>, price |-> pr] : pr \in {<<NoPrice>>, <<(<<13000>>)>>}}

\* the body of a product update: a new title, price and image
ProductEdits ==
    {[title |-> <<"Jersey 2">>, basePrice |-> <<11000>>, imageUrl |-> <<"img2">>]}

InitCat == InitWith({[v \in VIds |-> MaxStock]})

NextCat ==
    \/ CanCreate(CatOrders) /\ PostA_Read(Server, ByName)
    \/ PostCreate(Server)
    \/ /\ nreq < CatReq
       /\ \E oid \in 1..CatOrders, status \in {"paid", "canceled"} :
              PatchA_Update(Server, "admin", oid, status)
    \/ PatchA_Item(Server)
    \/ PatchA_Commit(Server)
    \/ /\ nreq < CatReq
       /\ \E oid \in 1..CatOrders, deposit \in Deposits :
              PatchD_Read(Server, "admin", oid, NULL, deposit)
    \/ PatchD_Tx(Server)
    \/ TxFail(Server)
    \/ \E caller \in {"seller", "user"}, d \in VariantEdits :
           VariantPatch_Read(Server, caller, "v1", d.stock, d.price)
    \/ VariantPatch_Update(Server)
    \/ \E caller \in {"seller", NULL}, d \in ProductEdits :
           ProductPut(Server, caller, "p1", d.title, d.basePrice, d.imageUrl)

SpecCat == InitCat /\ [][NextCat]_vars

----------------------------------------------------------------------------
(* The ledger runs: one request at a time; an order by a guest, its        *)
(* deposit and settlement by an admin, entries made by hand, and the edit  *)
(* and deletion of entries by any caller                                   *)

LedgerOrders == 1
LedgerReq == 2
LedgerRows == 2

InitLedger == InitWith({[v \in VIds |-> MaxStock]})

NextLedger ==
    \/ CanCreate(LedgerOrders) /\ PostA_Read(Server, ByName)
    \/ PostCreate(Server)
    \/ /\ nreq < LedgerReq
       /\ \E oid \in 1..LedgerOrders, status \in {"paid", NULL},
             deposit \in {0, 5000} :
              PatchD_Read(Server, "admin", oid, status, deposit)
    \/ PatchD_Tx(Server)
    \/ TxFail(Server)
    \/ /\ Len(ledger) < LedgerRows
       /\ \E caller \in {"seller", "user"}, images \in BOOLEAN :
              TxnPost_Create(Server, caller, "EXPENSE", 5000, images)
    \/ TxnPost_Images(Server)
    \/ \E caller \in AllCallers, id \in 1..LedgerRows,
          type \in {<<>>, <<"EXPENSE">>}, amount \in {<<>>, <<1>>} :
           TxnPatch_Read(Server, caller, id, type, amount)
    \/ TxnPatch_Update(Server)
    \/ \E caller \in AllCallers, id \in 1..LedgerRows :
           TxnDelete_Read(Server, caller, id)
    \/ TxnDelete_Delete(Server)

SpecLedger == InitLedger /\ [][NextLedger]_vars

----------------------------------------------------------------------------
(* The product runs: products created by any caller, with and without the *)
(* posting service; a post may resolve, reject or stay pending for ever    *)

MaxProducts == 2

\* the variants of a body: none, one size, two sizes
VariantLists ==
    {<<>>, <<[name |-> "M", stock |-> 1]>>,
     <<[name |-> "M", stock |-> 1], [name |-> "L", stock |-> 0]>>}

InitProd ==
    /\ catalog = CoreCatalog
    /\ stock0 = [v \in VIds |-> MaxStock]
    /\ stock = stock0
    /\ orders = <<>>
    /\ ledger = <<>>
    /\ pc = [p \in Procs |-> "idle"]
    /\ loc = [p \in Procs |-> NoLoc]
    /\ last = NoResp
    /\ nreq = 0
    /\ ndep = 0
    /\ req = NoBody
    /\ products = <<>>
    /\ posts = <<>>
    /\ instagramService \in BOOLEAN

NextProd ==
    \/ \E p \in Procs :
          \/ /\ Len(products) < MaxProducts
             /\ \E caller \in {"seller", "user", NULL}, variants \in VariantLists :
                    ProdPost_Create(p, caller, "Jersey", variants)
          \/ ProdPost_Respond(p)
    \/ \E i \in 1..MaxProducts :
          \/ Publish_Then(i)
          \/ Publish_Catch(i)

\* a handler goes on once its awaited statement has returned; nothing makes
\* the post resolve or reject
SpecProd ==
    /\ InitProd
    /\ [][NextProd]_vars
    /\ \A p \in Procs : WF_vars(ProdPost_Respond(p))

----------------------------------------------------------------------------
(* The read runs: orders by a guest and by two users, read by id and       *)
(* listed by either user and by a caller without a credential              *)

ReadOrders == 2

Users == {"u1", "u2"}

InitRead == InitWith({[v \in VIds |-> MaxStock]})

NextRead ==
    \E p \in Procs :
        \/ /\ CanCreate(ReadOrders)
           /\ \E user \in Users \cup {NULL} :
                  PostA_Read(p, [ByName EXCEPT !.user = user])
        \/ PostCreate(p)
        \/ \E caller \in Users \cup {NULL}, oid \in 1..ReadOrders :
               GetOrder(p, caller, oid)
        \/ \E caller \in Users \cup {NULL}, first \in {"count", "find"} :
               ListA_First(p, caller, first)
        \/ ListA_Second(p)
        \/ \E caller \in Users \cup {NULL}, first \in {"count", "find"} :
               ListC_First(p, caller, first)
        \/ ListC_Second(p)

SpecRead == InitRead /\ [][NextRead]_vars

----------------------------------------------------------------------------
(* The pricing runs: one order request, drawn with the catalog and the     *)
(* stock it meets, served by each version of POST orders                   *)

ReqItems ==
    { Item("p1", "v1", 1), Item("p1", "v2", 2),
      Item("p1", "M", 2), Item("p9", "L", 1) }

RECURSIVE ItemLists(_)
ItemLists(n) ==
    IF n = 0 THEN {<<>>}
    ELSE LET shorter == ItemLists(n - 1)
         IN  shorter \cup {Append(l, it) : l \in {k \in shorter : Len(k) = n - 1},
                                           it \in ReqItems}

\* items: z.array(itemSchema).min(1)
Bodies ==
    { Body(items, cn, cnum, patch, user) :
        items \in ItemLists(MaxItems) \ {<<>>},
        cn \in BOOLEAN, cnum \in BOOLEAN, patch \in BOOLEAN,
        user \in {NULL, "u1"} }

\* the first variant is size M of the first product, without override
PricingCatalogs ==
    { c \in Catalogs :
        c.var["v1"] = [productId |-> "p1", name |-> "M", price |-> NoPrice] }

InitCreate ==
    /\ catalog \in PricingCatalogs
    /\ stock0 \in [VIds -> 0..MaxStock]
    /\ stock = stock0
    /\ orders = <<>>
    /\ ledger = <<>>
    /\ pc = [p \in Procs |-> "idle"]
    /\ loc = [p \in Procs |-> NoLoc]
    /\ last = NoResp
    /\ nreq = 0
    /\ ndep = 0
    /\ req \in Bodies
    /\ products = <<>>
    /\ posts = <<>>
    /\ instagramService = FALSE

\* the request has not been served
Fresh == last = NoResp /\ orders = <<>>

NextCreate ==
    \/ Fresh /\ PostA_Read(Server, req)
    \/ Fresh /\ PostB_Read(Server, req)
    \/ Fresh /\ PostC_Read(Server, req)
    \/ PostCreate(Server)
    \/ TxFail(Server)

SpecCreate == InitCreate /\ [][NextCreate]_vars

----------------------------------------------------------------------------
(* The item runs: one order request with any number of items of any qty,  *)
(* in and out of the schema's bounds, served by one of the three versions  *)

\* a stock no request of the runs exhausts
AmpleStock == 100

\* the quantities at and beyond the bounds of the schema
EdgeQtys == {0, 1, 99, 100}

EdgeItems ==
    {Item("p1", v, q) : v \in {"v1", "M"}, q \in EdgeQtys}

RECURSIVE EdgeLists(_)
EdgeLists(n) ==
    IF n = 0 THEN {<<>>}
    ELSE LET shorter == EdgeLists(n - 1)
         IN  shorter \cup {Append(l, it) : l \in {k \in shorter : Len(k) = n - 1},
                                           it \in EdgeItems}

InitItems ==
    /\ catalog \in PricingCatalogs
    /\ stock0 = [v \in VIds |-> AmpleStock]
    /\ stock = stock0
    /\ orders = <<>>
    /\ ledger = <<>>
    /\ pc = [p \in Procs |-> "idle"]
    /\ loc = [p \in Procs |-> NoLoc]
    /\ last = NoResp
    /\ nreq = 0
    /\ ndep = 0
    /\ req \in {Body(items, FALSE, FALSE, FALSE, "u1") : items \in EdgeLists(MaxItems)}
    /\ products = <<>>
    /\ posts = <<>>
    /\ instagramService = FALSE

SpecItems == InitItems /\ [][NextCreate]_vars

----------------------------------------------------------------------------
(* What the claims read *)

\* the step ends request p with a success response
Commits(p) == pc[p] # "idle" /\ pc'[p] = "idle" /\ last'.code \in {200, 201}

\* the step ends a status request of p that asked for "paid"
EndsPaid(p) ==
    pc[p] = "items" /\ loc[p].status = "paid" /\ pc'[p] = "idle"

\* the committed rows
db == <<orders, stock, ledger>>

\* order o is for q units of variant v and nothing else
Wants(o, v, q) ==
    /\ Len(orders[o].items) = 1
    /\ orders[o].items[1].variantId = v
    /\ orders[o].items[1].quantity = q

\* some item of order o asks for more than its variant has
Short(o) ==
    \E i \in 1..Len(orders[o].items) :
        /\ orders[o].items[i].variantId \in VIds
        /\ stock[orders[o].items[i].variantId] < orders[o].items[i].quantity

----------------------------------------------------------------------------
(* C1..C7: stock, status and atomicity of the paid mark *)

\* C1: in every reachable state, after any sequence and interleaving of
\* paid marks, every ProductVariant.stock is >= 0
C1_StockNeverNegative == \A v \in VIds : stock[v] >= 0

\* C2: two pending orders each ask for the last unit of one variant (stock
\* 1) and are marked paid by overlapping requests: the two never both
\* succeed (one fails with a conflict and the stock ends at 0)
C2_LastUnitSoldOnce ==
    \A v \in VIds :
        ( /\ stock0[v] = 1
          /\ Len(orders) = 2
          /\ Wants(1, v, 1) /\ Wants(2, v, 1)
          /\ last.op = "patchA" /\ last.code = 200 /\ last.overlapped )
        => ~(orders[1].status = "paid" /\ orders[2].status = "paid")

\* C3: once an order is paid or canceled no request changes its status
C3_StatusMonotonic ==
    [][\A o \in 1..Len(orders) :
          orders[o].status \in {"paid", "canceled"}
              => orders'[o].status = orders[o].status]_vars

\* C4: a request to mark paid an order that is already paid fails with an
\* error and decrements no stock
C4_SecondPaidRejected ==
    [][\A p \in Procs :
          (EndsPaid(p) /\ orders[loc[p].oid].status = "paid")
              => (last'.code # 200 /\ stock' = stock)]_vars

C6_ShortStockAborts ==
    [][\A p \in Procs :
          (EndsPaid(p) /\ Short(loc[p].oid))
              => ( /\ orders'[loc[p].oid].status = orders[loc[p].oid].status
                   /\ stock' = stock )]_vars

----------------------------------------------------------------------------
(* C8..C10: what create() checks and computes *)

\* a create request has been answered
Served == last.op \in {"postA", "postB", "postC"}

\* item i of the request names a variant of the catalog and its product
Resolvable(i) ==
    /\ req.items[i].variantId \in VIds
    /\ req.items[i].productId = catalog.var[req.items[i].variantId].productId

\* the request is a logged-in user's and every item of it is resolvable
WellFormed ==
    /\ req.user # NULL
    /\ \A i \in 1..Len(req.items) : Resolvable(i)

\* the sum of unit price times quantity over the request's items
RECURSIVE Expected(_)
Expected(i) ==
    IF i > Len(req.items) THEN 0
    ELSE UnitPrice(catalog, req.items[i].variantId) * req.items[i].qty
         + Expected(i + 1)

\* C8: a create request with an item whose quantity exceeds the current
\* stock of its variant is answered 409 OUT_OF_STOCK and persists nothing
C8_OutOfStockRejected ==
    ( /\ Served
      /\ WellFormed
      /\ \E i \in 1..Len(req.items) :
            req.items[i].qty > stock[req.items[i].variantId] )
    => (last.code = 409 /\ last.error = "OUT_OF_STOCK" /\ orders = <<>>)

\* the variants item i of the request may mean: the one with that id or,
\* as the first version reads it, the ones with that name
Meant(i) ==
    { v \in VIds : v = req.items[i].variantId
                   \/ catalog.var[v].name = req.items[i].variantId }

\* C9: a create request with an item whose variantId or productId resolves
\* to no variant is answered 400 PRODUCT_MISMATCH and persists nothing, and
\* every item of a created order refers to an existing variant that the
\* request's variantId identifies
C9_ItemsResolved ==
    /\ ( /\ Served
         /\ req.user # NULL
         /\ \E i \in 1..Len(req.items) :
               req.items[i].productId \notin PIds \/ Meant(i) = {} )
       => (last.code = 400 /\ last.error = "PRODUCT_MISMATCH" /\ orders = <<>>)
    /\ \A o \in 1..Len(orders) :
          /\ Len(orders[o].items) = Len(req.items)
          /\ \A i \in 1..Len(req.items) :
                orders[o].items[i].variantId \in Meant(i)

\* C10: the subtotal of a created order is the sum over the request's items
\* of unit price times quantity, the unit price being the variant's override
\* if it has one and its product's base price otherwise
C10_SubtotalIsSum ==
    \A o \in 1..Len(orders) :
        WellFormed => orders[o].subtotal = Expected(1)

----------------------------------------------------------------------------
(* C11: the total price *)

\* the surcharges that apply to a persisted order, each once
Surcharge(o) ==
    (IF o.customName THEN 15000 ELSE 0)
    + (IF o.customNumber THEN 10000 ELSE 0)
    + (IF o.hasPatch THEN 20000 ELSE 0)

----------------------------------------------------------------------------
(* C12..C15: deposit, balance and cancellation *)

\* the step ends a deposit/settle request of p
EndsSettle(p) == pc[p] = "settle" /\ pc'[p] = "idle"

\* the ledger transactions of a kind that name order o
EntriesOf(led, kind, o) ==
    {i \in 1..Len(led) : led[i].kind = kind /\ led[i].order = o}

DepositFields(o) == <<o.depositAmount, o.depositPaidAt, o.depositTransactionId>>

\* C12: deposit recording is idempotent. A deposit request that begins once
\* the order's depositTransactionId is set creates no deposit transaction (no
\* transaction at all when it carries no status) and leaves depositAmount,
\* depositPaidAt and depositTransactionId as they are; a deposit request on
\* an order without a deposit, unchanged since the request read it, leaves
\* exactly one deposit transaction, the one the order refers to. So two calls
\* in a row create exactly one
C12_DepositIdempotent ==
    [][\A p \in Procs :
          (EndsSettle(p) /\ loc[p].deposit # 0)
          => LET o == loc[p].oid
             IN  /\ loc[p].snap.depositTransactionId # 0
                      => /\ EntriesOf(ledger', "deposit", o)
                              = EntriesOf(ledger, "deposit", o)
                         /\ loc[p].status = NULL => ledger' = ledger
                         /\ DepositFields(orders'[o]) = DepositFields(orders[o])
                 /\ ( /\ loc[p].snap.depositTransactionId = 0
                      /\ loc[p].snap = Snap(orders[o])
                      /\ last'.code = 200 )
                      => /\ EntriesOf(ledger', "deposit", o)
                              = {orders'[o].depositTransactionId}
                         /\ orders'[o].depositAmount = loc[p].deposit]_vars

\* two deposit requests on the order have been answered 200 and the ledger
\* holds one deposit transaction, the one the order refers to
C12_Witness ==
    /\ ndep = 2
    /\ Len(orders) = 1
    /\ Len(ledger) = 1
    /\ ledger[1].kind = "deposit"
    /\ orders[1].depositTransactionId = 1

\* C13: when an order with a recorded deposit and totalPrice - depositAmount
\* > 0 is transitioned to paid, exactly one new INCOME ledger transaction of
\* amount totalPrice - depositAmount is created, balancePaidAt and
\* balanceTransactionId are stamped and the status becomes paid
C13_BalanceSettled ==
    [][\A p \in Procs :
          LET o == loc[p].oid
          IN  ( /\ EndsSettle(p) /\ last'.code = 200
                /\ loc[p].status = "paid"
                /\ orders[o].status # "paid"
                /\ orders[o].depositTransactionId # 0
                /\ orders[o].totalPrice - orders[o].depositAmount > 0 )
              => /\ Len(ledger') = Len(ledger) + 1
                 /\ SubSeq(ledger', 1, Len(ledger)) = ledger
                 /\ ledger'[Len(ledger')].type = "INCOME"
                 /\ ledger'[Len(ledger')].amount
                        = orders[o].totalPrice - orders[o].depositAmount
                 /\ orders'[o].balanceTransactionId = Len(ledger')
                 /\ orders'[o].balancePaidAt # NULL
                 /\ orders'[o].status = "paid"]_vars

----------------------------------------------------------------------------
(* Role gate *)

\* the step changes the status of an existing order
StatusChanges ==
    \E o \in 1..Len(orders) : orders'[o].status # orders[o].status

\* C16: only a caller whose resolved role is admin changes an order's
\* status: a step that changes the status of an existing order ends a
\* request whose caller is an admin
C16_OnlyAdminChangesStatus ==
    [][StatusChanges =>
          \E p \in Procs :
              pc[p] # "idle" /\ pc'[p] = "idle" /\ loc[p].caller = "admin"]_vars

\* the errors a validation or an authorization failure is answered with
RejectErrors == {"BAD_REQUEST", "FORBIDDEN", "VALIDATION"}

\* the step answers a request with such an error
Rejection ==
    /\ last'.code \in {400, 403}
    /\ last'.error \in RejectErrors
    /\ last' # last \/ \E p \in Procs : pc[p] # "idle" /\ pc'[p] = "idle"

\* C17: a request that fails validation or authorization is rejected before
\* any mutation: the step that answers it leaves orders, stock and ledger
\* as they are, and the request has created no row before it
C17_RejectedBeforeMutation ==
    [][Rejection =>
          /\ db' = db
          /\ \A p \in Procs :
                (pc[p] # "idle" /\ pc'[p] = "idle") => loc[p].created = 0]_vars

\* C18: in every reachable state every order's status is one of pending,
\* paid and canceled
C18_StatusCanonical ==
    \A o \in 1..Len(orders) : orders[o].status \in Statuses

----------------------------------------------------------------------------
(* Frames of the catalog handlers *)

\* the step commits a variant update of p that carries a stock for v
EndsVariantStock(p, v) ==
    /\ pc[p] = "variant"
    /\ pc'[p] = "idle"
    /\ loc[p].variantId = v
    /\ loc[p].data.stock # <<>>

C20_SnapshotFixed ==
    [][\A o \in 1..Len(orders) :
          /\ orders'[o].items = orders[o].items
          /\ orders'[o].subtotal = orders[o].subtotal
          /\ orders'[o].totalPrice = orders[o].totalPrice]_vars

\* an order was created, its product's title, price and image were changed,
\* and it was marked paid and a deposit recorded: its item still carries the
\* old title, price and image
C20_Witness ==
    /\ Len(orders) = 1
    /\ orders[1].status = "paid"
    /\ orders[1].depositTransactionId # 0
    /\ orders[1].items[1].price # UnitPrice(catalog, "v1")
    /\ orders[1].items[1].title # Title(catalog.title["p1"], "M")
    /\ orders[1].items[1].imageUrl # catalog.imageUrl["p1"]
    /\ orders[1].subtotal = orders[1].items[1].price

----------------------------------------------------------------------------
(* The ledger *)

\* the Transaction rows the deposit/settle handler creates
Automatic(e) == e.kind \in {"deposit", "balance"}

\* C21: ledger transactions created by deposit recording or balance
\* settlement are append-only: no step changes or deletes one
C21_AutomaticAppendOnly ==
    [][\A i \in 1..Len(ledger) :
          Automatic(ledger[i]) => ledger'[i] = ledger[i]]_vars

----------------------------------------------------------------------------
(* Product creation and its post *)

\* C22: product creation answers 201 whatever becomes of the post: a created
\* product and its variants stay as they were written, the creation is
\* answered 201 before the post has begun, and it is answered even if the
\* post never resolves
C22_CreationIndependentOfPost ==
    /\ [][/\ SubSeq(products', 1, Len(products)) = products
          /\ \A p \in Procs :
                (pc[p] = "prodCreated" /\ pc'[p] = "idle")
                    => /\ last' = Resp("prodPost", 201, NULL, FALSE)
                       /\ posts[loc[p].created] = "none"]_vars
    /\ \A p \in Procs : (pc[p] = "prodCreated") ~> (pc[p] = "idle")

\* a product was created and answered 201, and its post has failed; another
\* one's post is still pending
C22_Witness ==
    /\ Len(products) = 2
    /\ posts = <<"failed", "pending">>
    /\ products[1].variants # <<>>
    /\ last = Resp("prodPost", 201, NULL, FALSE)
    /\ \A p \in Procs : pc[p] = "idle"

----------------------------------------------------------------------------
(* The rows create() persists *)

\* C23: every persisted order owns at least one OrderItem, one per requested
\* item and with its quantity, and every quantity is between 1 and 99
C23_ItemsPersisted ==
    \A o \in 1..Len(orders) :
        /\ Len(orders[o].items) >= 1
        /\ Len(orders[o].items) = Len(req.items)
        /\ \A i \in 1..Len(orders[o].items) :
              /\ orders[o].items[i].quantity = req.items[i].qty
              /\ orders[o].items[i].quantity \in 1..99

\* an order of two items was created, one of them of 99 units
C23_Witness ==
    /\ last.code = 201
    /\ Len(orders) = 1
    /\ Len(orders[1].items) = 2
    /\ orders[1].items[1].quantity = 99
    /\ orders[1].items[2].quantity = 1

----------------------------------------------------------------------------
(* The ledger rows of an order *)

\* C24: every ledger transaction created for an order, deposit or balance,
\* carries the order's userId when it has one and the acting admin's id when
\* it has none, is of type INCOME and has a positive amount
C24_AutomaticEntryShape ==
    [][\A i \in (Len(ledger) + 1)..Len(ledger') :
          Automatic(ledger'[i]) =>
              /\ ledger'[i].order \in 1..Len(orders)
              /\ ledger'[i].userId =
                     IF orders[ledger'[i].order].userId # NULL
                     THEN orders[ledger'[i].order].userId
                     ELSE "admin"
              /\ \E p \in Procs : EndsSettle(p) /\ loc[p].caller = "admin"
              /\ ledger'[i].type = "INCOME"
              /\ ledger'[i].amount > 0]_vars

\* a guest's order has its deposit and its balance in the ledger, both in
\* the admin's name
C24_Witness ==
    /\ Len(orders) = 1
    /\ orders[1].userId = NULL
    /\ Len(ledger) = 2
    /\ ledger[1].kind = "deposit" /\ ledger[1].userId = "admin"
    /\ ledger[2].kind = "balance" /\ ledger[2].userId = "admin"
    /\ ledger[1].amount + ledger[2].amount = orders[1].totalPrice

----------------------------------------------------------------------------
(* Who reads which orders *)

\* C25: a list of orders holds only orders of its caller and its total
\* counts no other order; an order read by id is returned only to its
\* owner, any other user being answered NOT_FOUND
C25_OnlyOwnOrders ==
    /\ (last.code = 200 /\ last.op \in {"getOrder", "listA", "listC"})
          => /\ \A o \in last.body.ids : orders[o].userId = last.body.caller
             /\ last.body.total <= Cardinality(Selected(last.body.caller))
    /\ (last.op = "getOrder" /\ last.code \notin {200, 401})
          => last = Resp("getOrder", 404, "NOT_FOUND", FALSE)

----------------------------------------------------------------------------
(* Stock accounting over every status-writing endpoint *)

\* the units of variant v that the paid orders from order o on hold
RECURSIVE PaidUnits(_, _)
PaidUnits(o, v) ==
    IF o > Len(orders) THEN 0
    ELSE (IF orders[o].status = "paid" THEN Asked(orders[o].items, 1, v) ELSE 0)
         + PaidUnits(o + 1, v)

\* C26: in every reachable state the stock of every variant is its initial
\* stock less the units of it on the paid orders: an order that has reached
\* paid, by any endpoint, has had its items decremented exactly once
C26_StockAccounting ==
    \A v \in VIds : stock[v] = stock0[v] - PaidUnits(1, v)

----------------------------------------------------------------------------
(* Overlapping requests of the deposit/settle handler *)

\* C27: under any interleaving of two deposit requests for one order, the
\* ledger holds at most one deposit transaction of the order, and the
\* order's depositTransactionId is that transaction
C27_OneDepositEntry ==
    \A o \in 1..Len(orders) :
        \/ EntriesOf(ledger, "deposit", o) = {}
        \/ EntriesOf(ledger, "deposit", o) = {orders[o].depositTransactionId}

\* C28: under any interleaving of two requests that set one order to paid,
\* the ledger holds at most one balance transaction of the order, and the
\* order's balanceTransactionId is that transaction
C28_OneBalanceEntry ==
    \A o \in 1..Len(orders) :
        \/ EntriesOf(ledger, "balance", o) = {}
        \/ EntriesOf(ledger, "balance", o) = {orders[o].balanceTransactionId}

----------------------------------------------------------------------------
(* The ledger against the order's status and total *)

\* C29: in every reachable state an order whose balanceTransactionId is set
\* (balancePaidAt stamped) has status paid
C29_BalanceImpliesPaid ==
    \A o \in 1..Len(orders) :
        orders[o].balanceTransactionId # 0 => orders[o].status = "paid"

\* the amounts of the automatic transactions of order o, from row i on
RECURSIVE AutomaticSum(_, _)
AutomaticSum(o, i) ==
    IF i > Len(ledger) THEN 0
    ELSE (IF Automatic(ledger[i]) /\ ledger[i].order = o
          THEN ledger[i].amount ELSE 0)
         + AutomaticSum(o, i + 1)

\* C30: the automatic transactions of an order never sum to more than its
\* totalPrice, and once the deposit/settle handler has set it to paid they
\* sum to exactly its totalPrice
C30_LedgerSumsToTotal ==
    \A o \in 1..Len(orders) :
        /\ AutomaticSum(o, 1) <= orders[o].totalPrice
        /\ orders[o].status = "paid"
              => AutomaticSum(o, 1) = orders[o].totalPrice

====
